---- MODULE Spec2Model ----
(***************************************************************************)
(* EvalFlow UI (src/ui/app.py): one execution of the Streamlit script      *)
(* after the operator has uploaded files, picked a provider and model and  *)
(* pressed "Run Evaluation".  The script body under `if run_button:` holds *)
(* the pipeline twice (lines 133-305 and 307-457); blk says which copy is  *)
(* executing.                                                              *)
(***************************************************************************)
EXTENDS Integers, Sequences, FiniteSets, TLC

\* ---------------------------------------------------------------- bounds
MaxMissing == 1      \* required fields a response body may lack
MaxItems == 1        \* entries of hallucinations / retrieved_context
MaxExpl == 2         \* keys of the explanations mapping

\* ------------------------------------------------------- abstract inputs
\* Content of an uploaded file: zero bytes, whitespace only, valid JSON,
\* near-valid JSON that parses once repaired, text that does not parse even
\* after repair, JSON nested deeper than the parser's recursion limit, bytes
\* that are not UTF-8.
Contents == {"empty", "blank", "valid", "repairable", "broken", "deep",
             "binary"}

Fields == {"relevance_score", "completeness_score", "accuracy_score",
           "generated_response", "prompt_used", "latency_ms", "cost_usd",
           "hallucinations", "retrieved_context", "explanations"}

Statuses == {200, 201, 500}

NoBody == [decodable |-> FALSE, missing |-> {}, nH |-> 0, nC |-> 0, nE |-> 0]

Bodies ==
    {NoBody} \cup
    [decodable : {TRUE},
     missing : {m \in SUBSET Fields : Cardinality(m) <= MaxMissing},
     nH : 0..MaxItems, nC : 0..MaxItems, nE : 0..MaxExpl]

NoResponse == [status |-> 0, body |-> NoBody]

\* ------------------------------------------------------ sidebar catalogs
openai_models == <<"gpt-4o-mini", "gpt-4-turbo", "gpt-3.5-turbo">>

gemini_models == <<"gemini-2.5-flash", "gemini-2.0-flash",
                   "gemini-1.5-flash", "gemini-1.5-pro">>

Providers == {"OpenAI", "Google Gemini"}

Catalog(p) == IF p = "OpenAI" THEN openai_models ELSE gemini_models

\* ------------------------------------------------------ helper functions
\* io.BytesIO.read(): everything from the current position to the end; a
\* stream already read to the end yields b"".
ReadKeepsPosition(content, pos) == content

Read(content, pos) == IF pos = 0 THEN content ELSE "empty"

\* bytes.decode("utf-8") raises UnicodeDecodeError (a ValueError) on bytes
\* that are not UTF-8.
DecodeFails(bytes) == bytes = "binary"

\* str.strip(): whitespace-only text becomes "".
Strip(text) == IF text \in {"empty", "blank"} THEN "empty" ELSE text

\* `not raw.strip()`
IsBlank(text) == Strip(text) = "empty"

\* app.json_cleaner.clean_json: best-effort normalisation of near-valid JSON.
clean_json(text) == IF text = "repairable" THEN "valid" ELSE text

\* json.loads: a value for valid JSON text, RecursionError for text nested
\* too deep, JSONDecodeError (a ValueError) for anything else.
json_loads_lenient(text) ==
    CASE text \in {"valid", "broken"} -> "ok"
      [] text = "deep" -> "RecursionError"
      [] OTHER -> "ValueError"

json_loads(text) ==
    CASE text = "valid" -> "ok"
      [] text = "deep" -> "RecursionError"
      [] OTHER -> "ValueError"

\* a page element: <<widget, name, number, report section (0: none)>>
El(widget, name) == <<widget, name, 0, 0>>
Rows(widget, name, n) == <<widget, name, n, 0>>
SecEl(k, widget, name, n) == <<widget, name, n, k>>

\* the elements the handlers of the validation `try` write to the page
\* (copy 1: lines 160-169, copy 2: lines 318-323)
OnParseError(b, kind) ==
    IF b = 1
    THEN IF kind = "ValueError"
         THEN <<El("error", "JSON Validation Error"),
                El("info", "tip: not empty, valid JSON")>>
         ELSE <<El("error", "Error parsing JSON"),
                El("info", "tip: valid JSON format")>>
    ELSE IF kind = "ValueError"
         THEN <<El("error", "ValueError message")>>
         ELSE <<El("error", "Error parsing JSON")>>

\* "openai" if provider == "OpenAI" else "gemini"
ModelTypeConstant(p) == "openai"

ModelType(p) == IF p = "OpenAI" THEN "openai" ELSE "gemini"

\* the request body built by each copy of the pipeline, as key/value pairs
Payload(b, conv, ctx, p, m) ==
    IF b = 1
    THEN {<<"conversation", conv>>, <<"context_vectors", ctx>>,
          <<"model_type", ModelType(p)>>, <<"model_name", m>>}
    ELSE {<<"conversation", conv>>, <<"context_vectors", ctx>>}

\* `response.status_code != 200`
IsApiErrorOnly5xx(code) == code >= 500

IsApiError(code) == code /= 200

\* percentage passed to progress_bar.progress at each stage
StagePercentReordered(stage) ==
    CASE stage = "start" -> 0
      [] stage = "parsing" -> 10
      [] stage = "sending" -> 20
      [] stage = "received" -> 30
      [] stage = "processing" -> 75
      [] stage = "rendering" -> 50
      [] stage = "complete" -> 100
      [] stage = "error" -> 0

StagePercent(stage) ==
    CASE stage = "start" -> 0
      [] stage = "parsing" -> 10
      [] stage = "sending" -> 20
      [] stage = "received" -> 30
      [] stage = "processing" -> 50
      [] stage = "rendering" -> 75
      [] stage = "complete" -> 100
      [] stage = "error" -> 0

Event(stage) == <<StagePercent(stage), stage>>

\* --------------------------------------------------------------- state
VARIABLES
    conv_file, ctx_file,        \* uploaded content, or "none"
    conv_pos, ctx_pos,          \* stream position of each upload: 0 start, 1 end
    provider, selected_model,   \* sidebar selection
    pc, blk,                    \* position in the script, copy of the pipeline
    conv_raw, ctx_raw,          \* decoded text of each upload, or "unset"
    conversation_json, context_json,   \* parsed values, or "unset"
    payload,                    \* request body (set of key/value pairs)
    requests,                   \* bodies handed to client.post, in order
    response, result,           \* service response, decoded body
    exc,                        \* exception in flight to `except Exception`
    progress,                   \* events sent to the progress bar(s)
    status_text,                \* content of the status placeholder
    page,                       \* elements written to the page, in order
    repair_args, parser_args,   \* texts handed to clean_json / json.loads
    reads,                      \* number of read() calls on the uploads
    decode_calls                \* number of response.json() calls

vars == <<conv_file, ctx_file, conv_pos, ctx_pos, provider, selected_model,
          pc, blk, conv_raw, ctx_raw, conversation_json, context_json,
          payload, requests, response, result, exc, progress, status_text,
          page, repair_args, parser_args, reads, decode_calls>>

inputVars == <<conv_file, ctx_file, provider, selected_model>>
fileVars == <<conv_pos, ctx_pos, conv_raw, ctx_raw, reads>>
parseVars == <<conversation_json, context_json, repair_args, parser_args>>
netVars == <<payload, requests, response, result, decode_calls>>
uiVars == <<progress, status_text, page>>

Init ==
    /\ conv_file = "none" /\ ctx_file = "none"
    /\ conv_pos = 0 /\ ctx_pos = 0
    /\ provider = "OpenAI" /\ selected_model = openai_models[1]
    /\ pc = "idle" /\ blk = 1
    /\ conv_raw = "unset" /\ ctx_raw = "unset"
    /\ conversation_json = "unset" /\ context_json = "unset"
    /\ payload = {} /\ requests = <<>>
    /\ response = NoResponse /\ result = NoBody
    /\ exc = "none"
    /\ progress = <<>> /\ status_text = "" /\ page = <<>>
    /\ repair_args = <<>> /\ parser_args = <<>>
    /\ reads = 0 /\ decode_calls = 0

\* ------------------------------------------------- operator's selections
UploadConversation ==
    /\ pc = "idle"
    /\ \E c \in Contents : conv_file' = c
    /\ conv_pos' = 0
    /\ UNCHANGED <<ctx_file, ctx_pos, provider, selected_model, pc, blk,
                   conv_raw, ctx_raw, reads, parseVars, netVars, exc, uiVars>>

UploadContext ==
    /\ pc = "idle"
    /\ \E c \in Contents : ctx_file' = c
    /\ ctx_pos' = 0
    /\ UNCHANGED <<conv_file, conv_pos, provider, selected_model, pc, blk,
                   conv_raw, ctx_raw, reads, parseVars, netVars, exc, uiVars>>

\* the model selectbox belongs to the provider: changing the provider shows
\* the other selectbox at its first option
SelectProvider ==
    /\ pc = "idle"
    /\ \E p \in Providers \ {provider} :
        /\ provider' = p
        /\ selected_model' = Catalog(p)[1]
    /\ UNCHANGED <<conv_file, ctx_file, pc, blk, fileVars, parseVars, netVars,
                   exc, uiVars>>

SelectModel ==
    /\ pc = "idle"
    /\ \E i \in 1..Len(Catalog(provider)) :
        selected_model' = Catalog(provider)[i]
    /\ UNCHANGED <<conv_file, ctx_file, provider, pc, blk, fileVars, parseVars,
                   netVars, exc, uiVars>>

ClickRun ==
    /\ pc = "idle"
    /\ pc' = "check_files"
    /\ UNCHANGED <<inputVars, blk, fileVars, parseVars, netVars, exc, uiVars>>

\* ------------------------------------------------------------ validation
\* lines 135-137 and 307-309
CheckFilesExist ==
    /\ pc = "check_files"
    /\ IF conv_file = "none" \/ ctx_file = "none"
       THEN /\ page' = Append(page, El("error", "Please upload both files"))
            /\ pc' = "stopped"
       ELSE /\ page' = page
            /\ pc' = "read"
    /\ UNCHANGED <<inputVars, blk, fileVars, parseVars, netVars, exc,
                   progress, status_text>>

\* lines 144-145 and 313-314: read and decode the conversation upload, then
\* the context upload; a decode error leaves the `try` at once
ReadUploads ==
    /\ pc = "read"
    /\ LET convBytes == Read(conv_file, conv_pos)
           ctxBytes == Read(ctx_file, ctx_pos)
       IN  IF DecodeFails(convBytes)
           THEN /\ conv_pos' = 1 /\ reads' = reads + 1
                /\ page' = page \o OnParseError(blk, "ValueError")
                /\ pc' = "stopped"
                /\ UNCHANGED <<ctx_pos, conv_raw, ctx_raw>>
           ELSE IF DecodeFails(ctxBytes)
           THEN /\ conv_pos' = 1 /\ ctx_pos' = 1 /\ reads' = reads + 2
                /\ conv_raw' = convBytes
                /\ page' = page \o OnParseError(blk, "ValueError")
                /\ pc' = "stopped"
                /\ UNCHANGED ctx_raw
           ELSE /\ conv_pos' = 1 /\ ctx_pos' = 1 /\ reads' = reads + 2
                /\ conv_raw' = convBytes /\ ctx_raw' = ctxBytes
                /\ page' = page
                /\ pc' = IF blk = 1 THEN "check_empty" ELSE "parse"
    /\ UNCHANGED <<inputVars, blk, parseVars, netVars, exc, progress,
                   status_text>>

\* lines 148-155 (copy 1 only); st.stop() is not caught by `except Exception`
ValidateNotEmpty ==
    /\ pc = "check_empty"
    /\ IF IsBlank(conv_raw)
       THEN /\ page' = Append(page, El("error", "Conversation file is empty"))
            /\ pc' = "stopped"
       ELSE IF IsBlank(ctx_raw)
       THEN /\ page' = Append(page, El("error", "Context file is empty"))
            /\ pc' = "stopped"
       ELSE /\ page' = page
            /\ pc' = "parse"
    /\ UNCHANGED <<inputVars, blk, fileVars, parseVars, netVars, exc,
                   progress, status_text>>

\* lines 158-169 and 316-323
CleanAndParse ==
    /\ pc = "parse"
    /\ LET convClean == clean_json(conv_raw)
           ctxClean == clean_json(ctx_raw)
           convOut == json_loads(convClean)
           ctxOut == json_loads(ctxClean)
       IN  IF convOut /= "ok"
           THEN /\ repair_args' = Append(repair_args, conv_raw)
                /\ parser_args' = Append(parser_args, convClean)
                /\ page' = page \o OnParseError(blk, convOut)
                /\ pc' = "stopped"
                /\ UNCHANGED <<conversation_json, context_json>>
           ELSE IF ctxOut /= "ok"
           THEN /\ repair_args' = repair_args \o <<conv_raw, ctx_raw>>
                /\ parser_args' = parser_args \o <<convClean, ctxClean>>
                /\ conversation_json' = "parsed conversation"
                /\ page' = page \o OnParseError(blk, ctxOut)
                /\ pc' = "stopped"
                /\ UNCHANGED context_json
           ELSE /\ repair_args' = repair_args \o <<conv_raw, ctx_raw>>
                /\ parser_args' = parser_args \o <<convClean, ctxClean>>
                /\ conversation_json' = "parsed conversation"
                /\ context_json' = "parsed context"
                /\ page' = page
                /\ pc' = "payload"
    /\ UNCHANGED <<inputVars, blk, fileVars, netVars, exc, progress,
                   status_text>>

\* lines 171-176 and 325-328
BuildPayload ==
    /\ pc = "payload"
    /\ payload' = Payload(blk, conversation_json, context_json, provider,
                          selected_model)
    /\ pc' = "start_progress"
    /\ UNCHANGED <<inputVars, blk, fileVars, parseVars, requests, response,
                   result, decode_calls, exc, uiVars>>

\* ------------------------------------------------------------- API call
\* an emission to the progress bar together with the status text
Stage(stage, from, to) ==
    /\ pc = from
    /\ progress' = Append(progress, Event(stage))
    /\ status_text' = stage
    /\ pc' = to
    /\ UNCHANGED <<inputVars, blk, fileVars, parseVars, netVars, exc, page>>

\* lines 179-183 and 331-335: a new progress bar at 0, an empty status slot
StartProgress ==
    /\ pc = "start_progress"
    /\ progress' = Append(progress, Event("start"))
    /\ status_text' = ""
    /\ pc' = "stage_parsing"
    /\ UNCHANGED <<inputVars, blk, fileVars, parseVars, netVars, exc, page>>

\* lines 187-190 and 339-342
StageParsing == Stage("parsing", "stage_parsing", "stage_sending")

\* lines 193-194 and 345-346
StageSending == Stage("sending", "stage_sending", "post")

\* lines 196-197 and 348-349: the call returns a response, or raises a
\* transport error (connection refused, timeout after 50 s, DNS failure)
Post ==
    /\ pc = "post"
    /\ requests' = Append(requests, payload)
    /\ \/ /\ \E st \in Statuses, b \in Bodies :
               response' = [status |-> st, body |-> b]
          /\ exc' = exc
          /\ pc' = "stage_received"
       \/ /\ response' = response
          /\ exc' = "TransportError"
          /\ pc' = "except"
    /\ UNCHANGED <<inputVars, blk, fileVars, parseVars, payload, result,
                   decode_calls, uiVars>>

\* lines 200-201 and 352-353
StageReceived == Stage("received", "stage_received", "check_status")

\* lines 203-205 and 355-357; st.stop() is not caught by `except Exception`
CheckStatus ==
    /\ pc = "check_status"
    /\ IF IsApiError(response.status)
       THEN /\ page' = Append(page, Rows("error", "API Error", response.status))
            /\ pc' = "stopped"
       ELSE /\ page' = page
            /\ pc' = "decode"
    /\ UNCHANGED <<inputVars, blk, fileVars, parseVars, netVars, exc,
                   progress, status_text>>

\* lines 207 and 359: response.json()
DecodeBody ==
    /\ pc = "decode"
    /\ decode_calls' = decode_calls + 1
    /\ IF response.body.decodable
       THEN /\ result' = response.body
            /\ exc' = exc
            /\ pc' = "stage_processing"
       ELSE /\ result' = result
            /\ exc' = "JSONDecodeError"
            /\ pc' = "except"
    /\ UNCHANGED <<inputVars, blk, fileVars, parseVars, payload, requests,
                   response, uiVars>>

\* lines 210-211 and 362-363
StageProcessing == Stage("processing", "stage_processing", "stage_rendering")

\* lines 214-215 and 366-367
StageRendering == Stage("rendering", "stage_rendering", "complete")

\* lines 217-224 and 369-376
Complete ==
    /\ pc = "complete"
    /\ progress' = Append(progress, Event("complete"))
    /\ status_text' = ""
    /\ page' = page \o <<El("success", "Evaluation Completed Successfully"),
                         El("subheader", "Evaluation Report")>>
    /\ pc' = "section1"
    /\ UNCHANGED <<inputVars, blk, fileVars, parseVars, netVars, exc>>

\* --------------------------------------------------------------- report
\* One report section: the heading and whatever is written before the first
\* result[...] lookup, then KeyError if a field the section reads is absent,
\* else the section's content.
Section(k, to, needs, head, body) ==
    /\ pc = "section" \o ToString(k)
    /\ IF needs \cap result.missing /= {}
       THEN /\ page' = page \o head
            /\ exc' = "KeyError"
            /\ pc' = "except"
       ELSE /\ page' = page \o head \o body
            /\ exc' = exc
            /\ pc' = to
    /\ UNCHANGED <<inputVars, blk, fileVars, parseVars, netVars, progress,
                   status_text>>

\* n elements, numbered from 1 (one per loop iteration)
Each(k, widget, name, n) == [i \in 1..n |-> SecEl(k, widget, name, i)]

\* lines 226-236 and 378-388
Section1 ==
    Section(1, "section2",
            {"relevance_score", "completeness_score", "accuracy_score"},
            <<SecEl(1, "markdown", "Evaluation Scores", 0)>>,
            <<SecEl(1, "dataframe", "scores", 3)>>)

\* lines 238-240 and 390-392
Section2 ==
    Section(2, "section3", {"generated_response"},
            <<SecEl(2, "markdown", "Generated Response", 0)>>,
            <<SecEl(2, "info", "generated_response", 0)>>)

\* lines 242-245 and 394-397
Section3 ==
    Section(3, "section4", {"prompt_used"},
            <<SecEl(3, "markdown", "Prompt Used for Generation", 0),
              SecEl(3, "expander", "View Prompt", 0)>>,
            <<SecEl(3, "text", "prompt_used", 0)>>)

\* lines 247-256 and 399-408
Section4 ==
    Section(4, "section5", {"latency_ms", "cost_usd"},
            <<SecEl(4, "markdown", "Performance Metrics", 0)>>,
            <<SecEl(4, "dataframe", "metrics", 2)>>)

\* lines 258-266 and 410-418
Section5 ==
    Section(5, "section6", {"hallucinations"},
            <<SecEl(5, "markdown", "Detected Hallucinations", 0)>>,
            IF result.nH > 0
            THEN <<SecEl(5, "dataframe", "hallucinations", result.nH)>>
            ELSE <<SecEl(5, "success", "No hallucinations detected", 0)>>)

\* lines 268-289 and 420-441
Section6 ==
    Section(6, "section7", {"retrieved_context"},
            <<SecEl(6, "markdown", "Retrieved Context", 0)>>,
            IF result.nC > 0
            THEN <<SecEl(6, "dataframe", "context", result.nC),
                   SecEl(6, "markdown", "Full Context Details", 0)>>
                 \o Each(6, "expander", "Context #", result.nC)
            ELSE <<SecEl(6, "warning", "No context retrieved", 0)>>)

\* lines 291-296 and 443-448
Section7 ==
    Section(7, "section8", {"explanations"},
            <<SecEl(7, "markdown", "Evaluation Explanations", 0)>>,
            IF result.nE > 0
            THEN Each(7, "expander", "explanation", result.nE)
            ELSE <<>>)

\* lines 298-301 and 450-453; the `try` ends and the script goes on with the
\* statement after it (line 307 after the first copy, the end of the script
\* after the second)
Section8 ==
    /\ pc = "section8"
    /\ page' = page \o <<SecEl(8, "markdown", "Raw JSON Response", 0),
                         SecEl(8, "expander", "View Raw JSON", 0),
                         SecEl(8, "json", "result", 0)>>
    /\ pc' = IF blk = 1 THEN "check_files" ELSE "done"
    /\ blk' = 2
    /\ UNCHANGED <<inputVars, fileVars, parseVars, netVars, exc, progress,
                   status_text>>

\* lines 303-305 and 455-457: `except Exception`, then on to the statement
\* after the `try`
HandleException ==
    /\ pc = "except"
    /\ page' = Append(page, El("error", "Error connecting to backend: " \o exc))
    /\ progress' = Append(progress, Event("error"))
    /\ exc' = "none"
    /\ pc' = IF blk = 1 THEN "check_files" ELSE "done"
    /\ blk' = 2
    /\ UNCHANGED <<inputVars, fileVars, parseVars, netVars, status_text>>

Next ==
    \/ UploadConversation \/ UploadContext \/ SelectProvider \/ SelectModel
    \/ ClickRun
    \/ CheckFilesExist \/ ReadUploads \/ ValidateNotEmpty \/ CleanAndParse
    \/ BuildPayload
    \/ StartProgress \/ StageParsing \/ StageSending \/ Post \/ StageReceived
    \/ CheckStatus \/ DecodeBody \/ StageProcessing \/ StageRendering
    \/ Complete
    \/ Section1 \/ Section2 \/ Section3 \/ Section4 \/ Section5 \/ Section6
    \/ Section7 \/ Section8
    \/ HandleException

Spec == Init /\ [][Next]_vars

\* =================================================================== claims
Ended == pc \in {"stopped", "done"}

Last(s) == s[Len(s)]

Range(s) == {s[i] : i \in 1..Len(s)}

SectionStarted(k) == \E i \in 1..Len(page) : page[i][4] = k

\* a section is complete once the script has moved past it
SectionComplete(k) ==
    IF k < 8 THEN SectionStarted(k + 1)
    ELSE \E i \in 1..Len(page) : page[i] = <<"json", "result", 0, 8>>

ReportComplete == SectionComplete(8)

Failed == Ended /\ ~ReportComplete

Shown(widget, name) ==
    \E i \in 1..Len(page) : page[i][1] = widget /\ page[i][2] = name

ApiErrorShown == Shown("error", "API Error")

StatusChecked ==
    response.status /= 0 /\ pc \notin {"stage_received", "check_status"}

Parseable == {"valid", "repairable"}

\* C1: every failed run ends with the progress indicator in its terminal
\* error state at 0% (a run that fails before any progress event exists is
\* let pass here; the claim as written asks for the error event there too).
C1_FailureResetsProgress ==
    Failed /\ progress /= <<>> => Last(progress) = <<0, "error">>

\* C2: no partial report: a run that has ended and shows some report section
\* shows all of sections 1-8.
C2_NoPartialReport ==
    Ended /\ (\E k \in 1..8 : SectionComplete(k)) => ReportComplete

\* C3: a remote call is issued only when both uploads were present, not
\* blank, and parsed as JSON after repair; with a missing, blank or
\* unparseable upload no call is ever made.
C3_CallOnlyAfterValidation ==
    requests /= <<>> =>
        /\ conv_file \in Parseable /\ ctx_file \in Parseable
        /\ conversation_json /= "unset" /\ context_json /= "unset"
        /\ \A i \in 1..Len(parser_args) :
               i <= 2 => parser_args[i] = "valid"

C3_Witness ==
    /\ Len(requests) = 1
    /\ conv_file = "repairable" /\ ctx_file = "valid"
    /\ parser_args = <<"valid", "valid">>

C5_ProgressMonotone ==
    LET stages == <<10, 20, 30, 50, 75, 100>>
        n == Len(progress)
    IN  /\ n > 0 => progress[1] = <<0, "start">>
        /\ n <= 8
        /\ \A i \in 2..n :
            /\ progress[i][2] /= "error" =>
                   /\ i - 1 <= 6
                   /\ progress[i][1] = stages[i - 1]
            /\ progress[i][1] < progress[i - 1][1] =>
                   /\ progress[i] = <<0, "error">>
                   /\ i = n
        /\ Ended /\ ReportComplete => progress[n][1] = 100

C5_Witness ==
    /\ Ended /\ ReportComplete
    /\ [i \in 1..Len(progress) |-> progress[i][1]]
           = <<0, 10, 20, 30, 50, 75, 100>>

\* C6: every request body sent carries exactly conversation,
\* context_vectors, model_type and model_name; model_type is "openai" exactly
\* for provider OpenAI and "gemini" exactly for Google Gemini; model_name is
\* in the selected provider's catalog.
C6_RequestShape ==
    \A i \in 1..Len(requests) :
        LET r == requests[i] IN
        /\ {kv[1] : kv \in r} =
               {"conversation", "context_vectors", "model_type", "model_name"}
        /\ Cardinality(r) = 4
        /\ <<"model_type", "openai">> \in r <=> provider = "OpenAI"
        /\ <<"model_type", "gemini">> \in r <=> provider = "Google Gemini"
        /\ \E m \in Range(IF provider = "OpenAI" THEN openai_models
                                               ELSE gemini_models) :
               <<"model_name", m>> \in r

C6_Witness ==
    /\ Len(requests) = 1
    /\ provider = "Google Gemini"
    /\ <<"model_type", "gemini">> \in requests[1]
    /\ <<"model_name", "gemini-1.5-pro">> \in requests[1]

C8_BlankNeverRepaired ==
    /\ \A i \in 1..Len(repair_args) : repair_args[i] \notin {"empty", "blank"}
    /\ \A i \in 1..Len(parser_args) : parser_args[i] \notin {"empty", "blank"}

\* C9: with an empty explanations mapping nothing of section 7, not even its
\* heading, is written between section 6 and section 8; with a non-empty one
\* the section holds one entry per key.
C9_ExplanationsOmittedWhenEmpty ==
    ReportComplete =>
        /\ result.nE = 0 => ~SectionStarted(7)
        /\ result.nE > 0 =>
               Cardinality({i \in 1..Len(page) :
                   page[i][4] = 7 /\ page[i][1] = "expander"}) = result.nE

\* C10: once the Complete stage and all report sections are out, nothing
\* further happens: no second read of the uploads, nothing written after the
\* report.
C10_NothingAfterReport ==
    ReportComplete =>
        /\ reads = 2
        /\ Last(page) = <<"json", "result", 0, 8>>

====
